---- MODULE Spec2Model ----
(***************************************************************************)
(* Model of arc's "sweep" command (src/arc/cleanup_untracked_git.py):      *)
(* find_and_move_untracked_files moves the files git reports as untracked  *)
(* and not ignored into <root>/cleanup_untracked_<timestamp>/, mirroring   *)
(* their relative paths, and writes cleanup_log.txt there.                 *)
(*                                                                         *)
(* A path is a sequence of name components, relative to the top level of   *)
(* the working tree.  The filesystem is `files` (path -> content) and      *)
(* `dirs` (set of directory paths).  git's view is `idx` (paths in the     *)
(* index) and `ign` (paths matched by an ignore rule).                     *)
(***************************************************************************)
EXTENDS Naturals, Sequences, FiniteSets

VARIABLES
    files,            \* filesystem: [path -> content] for every regular file
    dirs,             \* filesystem: set of existing directory paths
    idx,              \* git index: set of tracked paths
    ign,              \* set of paths matched by an ignore rule
    root,             \* root_dir, as a path relative to the top level
    clock,            \* wall clock, in seconds
    pc,               \* position of the run inside find_and_move_untracked_files
    cleanup_path,     \* local of the run (line 19)
    untracked_files,  \* local of the run (line 40)
    pos,              \* index of the for loop of line 68 (1-based)
    log_entries,      \* local of the run (line 55)
    files_moved_count,\* local of the run (line 66)
    outcome,          \* how the run ended (which print/handler was reached)
    run,              \* number of the current sweep run
    faults,           \* number of failing calls the environment has injected so far
    files0,           \* history: `files` when the current run started
    dirs0,            \* history: `dirs` when the current run started
    attempts,         \* history: relative paths handed to shutil.move, in order
    logWrites,        \* history: number of times the run opened the log for writing
    runFaults,        \* history: kinds of failure the current run has met
    dirsReady,        \* history: every move so far found its destination directories in place
    prev              \* history: summary of the previous run

vars == <<files, dirs, idx, ign, root, clock, pc, cleanup_path, untracked_files,
          pos, log_entries, files_moved_count, outcome, run, faults,
          files0, dirs0, attempts, logWrites, runFaults, dirsReady, prev>>

(***************************************************************************)
(* Bounds of the model.                                                    *)
(***************************************************************************)
MaxFiles == 3      \* files present in the working tree before the first run
MaxRuns == 2       \* sweep runs in one behaviour
MaxFaults == 2     \* failing calls (git, mkdir, rename, unlink, open/write) in one behaviour

(***************************************************************************)
(* Names and paths.                                                        *)
(***************************************************************************)
log_file_name == "cleanup_log.txt"

\* strftime("%Y-%m-%d_%H%M%S") inside f"cleanup_untracked_{current_date}":
\* one folder name per second, later seconds sorting later.
CleanupFolderNames ==
    <<"cleanup_untracked_1", "cleanup_untracked_2",
      "cleanup_untracked_3", "cleanup_untracked_4">>

cleanup_folder(t) == CleanupFolderNames[t]

\* Byte order of the component names, as git sorts its output.
NameOrder ==
    <<"a", log_file_name>> \o CleanupFolderNames \o <<"x">>

Rank(n) == CHOOSE k \in 1..Len(NameOrder) : NameOrder[k] = n

\* os.path.join(a, b) for a relative b
Join(a, b) == a \o b

\* os.path.dirname
Dirname(p) == SubSeq(p, 1, Len(p) - 1)

\* os.path.basename
Basename(p) == p[Len(p)]

IsPrefix(r, p) == Len(r) <= Len(p) /\ SubSeq(p, 1, Len(r)) = r

\* every directory on the way to p, the top level included, p excluded
Ancestors(p) == { SubSeq(p, 1, k) : k \in 0..(Len(p) - 1) }

\* p with the leading r removed (p is under r)
RelativeTo(r, p) == SubSeq(p, Len(r) + 1, Len(p))

PathLess(p, q) ==
    LET n == IF Len(p) < Len(q) THEN Len(p) ELSE Len(q)
        diff == { k \in 1..n : p[k] # q[k] }
    IN  IF diff = {}
        THEN Len(p) < Len(q)
        ELSE LET k == CHOOSE j \in diff : \A l \in diff : j <= l
             IN  Rank(p[k]) < Rank(q[k])

RECURSIVE SortPaths(_)
SortPaths(S) ==
    IF S = {} THEN <<>>
    ELSE LET m == CHOOSE x \in S : \A y \in S : x = y \/ PathLess(x, y)
         IN  <<m>> \o SortPaths(S \ {m})

(***************************************************************************)
(* File contents.                                                          *)
(***************************************************************************)
Data(p) == [kind |-> "data", id |-> p, entries |-> <<>>]
LogText(entries) == [kind |-> "log", id |-> <<>>, entries |-> entries]
Truncated == [kind |-> "empty", id |-> <<>>, entries |-> <<>>]

Entry(k, p, n) == [kind |-> k, path |-> p, n |-> n]

(***************************************************************************)
(* The working trees the first run may start from.                         *)
(***************************************************************************)
InitPaths == { <<"x">>, <<"a", "x">>, <<"a", "a", "x">>, <<log_file_name>> }

Roots == { <<>>, <<"a">> }

NoPrev == [cleanup |-> <<>>, moved |-> 0, time |-> 0]

Init ==
    \E present \in SUBSET InitPaths :
    \E tracked \in SUBSET present :
    \E ignored \in SUBSET (present \ tracked) :
    \E r \in Roots :
        /\ Cardinality(present) <= MaxFiles
        /\ files = [p \in present |-> Data(p)]
        /\ dirs = {<<>>} \cup UNION { Ancestors(p) : p \in present }
        /\ r \in dirs
        /\ idx = tracked
        /\ ign = ignored
        /\ root = r
        /\ clock = 1
        /\ pc = "start"
        /\ cleanup_path = <<>>
        /\ untracked_files = <<>>
        /\ pos = 1
        /\ log_entries = <<>>
        /\ files_moved_count = 0
        /\ outcome = "running"
        /\ run = 1
        /\ faults = 0
        /\ files0 = files
        /\ dirs0 = dirs
        /\ attempts = <<>>
        /\ logWrites = 0
        /\ runFaults = {}
        /\ dirsReady = TRUE
        /\ prev = NoPrev

(***************************************************************************)
(* The filesystem and git, as the run uses them.                           *)
(***************************************************************************)
Put(f, p, c) == [q \in (DOMAIN f) \cup {p} |-> IF q = p THEN c ELSE f[q]]

Remove(f, p) == [q \in (DOMAIN f) \ {p} |-> f[q]]

\* os.path.isfile
IsFile(p) == p \in DOMAIN files

\* d and every directory on the way to it
DirChain(d) == { SubSeq(d, 1, k) : k \in 0..Len(d) }

\* os.makedirs(d, exist_ok=True) raises when a component of d is a regular file
MakedirsBlocked(d) == \E q \in DirChain(d) : IsFile(q)

\* os.makedirs(d, exist_ok=True), completed
Makedirs(d) == dirs \cup DirChain(d)

\* git ls-files --others --exclude-standard --full-name, run with cwd = r:
\* the files under r that are neither in the index nor ignored, each printed
\* relative to the top level of the working tree (--full-name), sorted.
GitLsFilesOthers(r) ==
    SortPaths({ f \in DOMAIN files : f \notin idx /\ f \notin ign /\ IsPrefix(r, f) })

\* lines 40-43: keep the entries that, joined to root_dir, are regular files
FilterFiles(listed) == SelectSeq(listed, LAMBDA f : IsFile(Join(root, f)))

\* the loop of line 68 walking the list from its end
relative_path_reversed(k) == untracked_files[Len(untracked_files) - k + 1]

\* line 68: the entry the k-th iteration of the loop works on
relative_path(k) == untracked_files[k]

source_path(rel) == Join(root, rel)

target_path(rel) == Join(cleanup_path, rel)

target_dir(rel) == Dirname(target_path(rel))

log_file_path == Join(cleanup_path, <<log_file_name>>)

\* shutil.move(src, dst): an existing directory dst receives the file inside it
RealDst(src, dst) == IF dst \in dirs THEN Join(dst, <<Basename(src)>>) ELSE dst

\* shutil.move(src, dst) cannot succeed
MoveBlocked(src, dst) ==
    \/ ~IsFile(src)
    \/ Dirname(RealDst(src, dst)) \notin dirs
    \/ RealDst(src, dst) \in dirs
    \/ (dst \in dirs /\ IsFile(RealDst(src, dst)))

Header ==
    << Entry("TITLE", <<>>, 0),
       Entry("DATE", <<>>, clock),
       Entry("SOURCE", root, 0),
       Entry("DEST", <<cleanup_folder(clock)>>, 0),
       Entry("TOTAL", <<>>, Len(untracked_files)),
       Entry("SECTION", <<>>, 0) >>

Footer(n) == << Entry("COUNT", <<>>, n), Entry("END", <<>>, 0) >>

CanFail == faults < MaxFaults

(***************************************************************************)
(* The run, step by step.                                                  *)
(***************************************************************************)
Finish(o) == pc' = "done" /\ outcome' = o

\* Setup with the cleanup directory created before the repository check
Setup_MkdirFirst ==
    /\ pc = "start"
    /\ cleanup_path' = Join(root, <<cleanup_folder(clock)>>)
    /\ dirs' = dirs \cup DirChain(cleanup_path')
    /\ \/ /\ pc' = "enumerate"
          /\ UNCHANGED <<outcome, faults, runFaults>>
       \/ /\ CanFail
          /\ \E o \in {"git_error", "git_missing"} :
                Finish(o) /\ runFaults' = runFaults \cup {o}
          /\ faults' = faults + 1
    /\ UNCHANGED <<files, idx, ign, root, clock, untracked_files, pos, log_entries,
                   files_moved_count, run, files0, dirs0, attempts, logWrites, dirsReady,
                   prev>>

\* lines 17-27: name the cleanup folder, then git rev-parse --is-inside-work-tree
Setup ==
    /\ pc = "start"
    /\ cleanup_path' = Join(root, <<cleanup_folder(clock)>>)
    /\ \/ /\ pc' = "enumerate"
          /\ UNCHANGED <<outcome, faults, runFaults>>
       \/ /\ CanFail
          /\ \E o \in {"git_error", "git_missing"} :
                Finish(o) /\ runFaults' = runFaults \cup {o}
          /\ faults' = faults + 1
    /\ UNCHANGED <<files, dirs, idx, ign, root, clock, untracked_files, pos, log_entries,
                   files_moved_count, run, files0, dirs0, attempts, logWrites, dirsReady,
                   prev>>

\* the run going on to create the cleanup folder whatever the list holds
AfterEnumerate_NoShortCircuit(kept) == pc' = "mkdir" /\ UNCHANGED outcome

\* lines 45-47: the short-circuit on an empty list
AfterEnumerate(kept) ==
    IF kept = <<>> THEN Finish("noop") ELSE pc' = "mkdir" /\ UNCHANGED outcome

\* lines 31-49: git ls-files, the isfile filter, the short-circuit
Enumerate ==
    /\ pc = "enumerate"
    /\ \/ /\ untracked_files' = FilterFiles(GitLsFilesOthers(root))
          /\ AfterEnumerate(untracked_files')
          /\ UNCHANGED <<faults, runFaults>>
       \/ /\ CanFail
          /\ Finish("git_error")
          /\ faults' = faults + 1
          /\ runFaults' = runFaults \cup {"git_error"}
          /\ UNCHANGED untracked_files
    /\ UNCHANGED <<files, dirs, idx, ign, root, clock, cleanup_path, pos, log_entries,
                   files_moved_count, run, files0, dirs0, attempts, logWrites, dirsReady,
                   prev>>

\* lines 52-66: create the cleanup directory, start the log
CreateCleanupDir ==
    /\ pc = "mkdir"
    /\ \/ /\ ~MakedirsBlocked(cleanup_path)
          /\ dirs' = Makedirs(cleanup_path)
          /\ log_entries' = Header
          /\ files_moved_count' = 0
          /\ pc' = IF untracked_files = <<>> THEN "write_log" ELSE "ensure_dir"
          /\ UNCHANGED <<outcome, faults, runFaults>>
       \/ /\ MakedirsBlocked(cleanup_path) \/ CanFail
          /\ Finish("unexpected")
          /\ faults' = IF MakedirsBlocked(cleanup_path) THEN faults ELSE faults + 1
          /\ runFaults' = runFaults \cup {"makedirs_root"}
          /\ UNCHANGED <<dirs, log_entries, files_moved_count>>
    /\ UNCHANGED <<files, idx, ign, root, clock, cleanup_path, untracked_files, pos,
                   run, files0, dirs0, attempts, logWrites, dirsReady, prev>>

\* line 68: the loop advances to the next entry, or ends
Advance ==
    /\ pos' = pos + 1
    /\ pc' = IF pos = Len(untracked_files) THEN "write_log" ELSE "ensure_dir"

\* os.makedirs placed inside the per-file try: an ERROR entry, then the next file
MakedirsFailure_Caught(rel) ==
    /\ log_entries' = Append(log_entries, Entry("ERROR", rel, 0))
    /\ Advance
    /\ UNCHANGED outcome

\* line 74: os.makedirs sits before the try of line 76, so what it raises
\* leaves the loop and reaches the handler of lines 112-113
MakedirsFailure(rel) ==
    /\ Finish("unexpected")
    /\ UNCHANGED <<log_entries, pos>>

\* lines 68-74: the loop head and os.makedirs(target_dir, exist_ok=True)
EnsureTargetDir ==
    /\ pc = "ensure_dir"
    /\ LET rel == relative_path(pos)
           d == target_dir(rel)
       IN  \/ /\ ~MakedirsBlocked(d)
              /\ dirs' = Makedirs(d)
              /\ pc' = "move"
              /\ UNCHANGED <<outcome, faults, runFaults, log_entries, pos>>
           \/ /\ MakedirsBlocked(d) \/ CanFail
              /\ \E k \in Len(cleanup_path)..Len(d) :
                    /\ k < Len(d) \/ k = Len(cleanup_path)
                    /\ dirs' = dirs \cup DirChain(SubSeq(d, 1, k))
              /\ MakedirsFailure(rel)
              /\ faults' = IF MakedirsBlocked(d) THEN faults ELSE faults + 1
              /\ runFaults' = runFaults \cup {"makedirs"}
    /\ UNCHANGED <<files, idx, ign, root, clock, cleanup_path, untracked_files,
                   files_moved_count, run, files0, dirs0, attempts, logWrites, dirsReady,
                   prev>>

\* lines 76-90: shutil.move inside the per-file try
MoveFile ==
    /\ pc = "move"
    /\ LET rel == relative_path(pos)
           src == source_path(rel)
           dst == RealDst(src, target_path(rel))
           blocked == MoveBlocked(src, target_path(rel))
       IN  /\ attempts' = Append(attempts, rel)
           /\ \/ /\ ~blocked
                 /\ files' = Put(Remove(files, src), dst, files[src])
                 /\ log_entries' = Append(log_entries, Entry("MOVED", rel, 0))
                 /\ files_moved_count' = files_moved_count + 1
                 /\ dirsReady' = (dirsReady /\ DirChain(Dirname(dst)) \subseteq dirs)
                 /\ UNCHANGED <<faults, runFaults>>
              \/ /\ blocked \/ CanFail
                 /\ UNCHANGED files
                 /\ log_entries' = Append(log_entries, Entry("ERROR", rel, 0))
                 /\ faults' = IF blocked THEN faults ELSE faults + 1
                 /\ runFaults' = runFaults \cup {"move"}
                 /\ UNCHANGED <<files_moved_count, dirsReady>>
              \/ \* os.rename fails, the copy is made, os.unlink of the source fails
                 /\ ~blocked /\ faults + 2 <= MaxFaults
                 /\ files' = Put(files, dst, files[src])
                 /\ log_entries' = Append(log_entries, Entry("ERROR", rel, 0))
                 /\ faults' = faults + 2
                 /\ runFaults' = runFaults \cup {"move"}
                 /\ UNCHANGED <<files_moved_count, dirsReady>>
    /\ Advance
    /\ UNCHANGED <<dirs, idx, ign, root, clock, cleanup_path, untracked_files, outcome,
                   run, files0, dirs0, logWrites, prev>>

\* lines 92-105: the footer, the log file, the completion report
WriteLog ==
    /\ pc = "write_log"
    /\ log_entries' = log_entries \o Footer(files_moved_count)
    /\ \/ /\ log_file_path \notin dirs
          /\ files' = Put(files, log_file_path, LogText(log_entries'))
          /\ logWrites' = logWrites + 1
          /\ UNCHANGED <<faults, runFaults>>
       \/ /\ log_file_path \in dirs \/ CanFail
          /\ UNCHANGED <<files, logWrites>>
          /\ faults' = IF log_file_path \in dirs THEN faults ELSE faults + 1
          /\ runFaults' = runFaults \cup {"log"}
       \/ /\ log_file_path \notin dirs /\ CanFail
          /\ files' = Put(files, log_file_path, Truncated)
          /\ logWrites' = logWrites + 1
          /\ faults' = faults + 1
          /\ runFaults' = runFaults \cup {"log"}
    /\ Finish("complete")
    /\ UNCHANGED <<dirs, idx, ign, root, clock, cleanup_path, untracked_files, pos,
                   files_moved_count, run, files0, dirs0, attempts, dirsReady, prev>>

\* src/arc/__main__.py: the user runs "sweep" again in the same root, at a
\* later second (two runs within one second share their folder name; the
\* specification sets that collision aside)
Rerun ==
    /\ pc = "done"
    /\ run < MaxRuns
    /\ run' = run + 1
    /\ clock' = clock + 1
    /\ prev' = [cleanup |-> cleanup_path, moved |-> files_moved_count, time |-> clock]
    /\ pc' = "start"
    /\ outcome' = "running"
    /\ cleanup_path' = <<>>
    /\ untracked_files' = <<>>
    /\ pos' = 1
    /\ log_entries' = <<>>
    /\ files_moved_count' = 0
    /\ files0' = files
    /\ dirs0' = dirs
    /\ attempts' = <<>>
    /\ logWrites' = 0
    /\ runFaults' = {}
    /\ dirsReady' = TRUE
    /\ UNCHANGED <<files, dirs, idx, ign, root, faults>>

Next ==
    \/ Setup
    \/ Enumerate
    \/ CreateCleanupDir
    \/ EnsureTargetDir
    \/ MoveFile
    \/ WriteLog
    \/ Rerun

Spec == Init /\ [][Next]_vars

(***************************************************************************)
(* Vocabulary of the properties.                                           *)
(***************************************************************************)
Done == pc = "done"

SetupFailed == outcome \in {"git_error", "git_missing"}

\* the untracked, non-ignored regular files under the root when the run started
StartUntracked ==
    { f \in DOMAIN files0 : f \notin idx /\ f \notin ign /\ IsPrefix(root, f) }

HasEntry(log, k, p) == \E n \in 1..Len(log) : log[n].kind = k /\ log[n].path = p

FileEntries(log) == SelectSeq(log, LAMBDA e : e.kind \in {"MOVED", "ERROR"})

PathsOf(log) == [n \in 1..Len(log) |-> log[n].path]

MovedPaths == { log_entries[n].path : n \in { m \in 1..Len(log_entries) : log_entries[m].kind = "MOVED" } }

\* the log the run has left on disk
WrittenLog ==
    IF IsFile(log_file_path) /\ files[log_file_path].kind = "log"
    THEN files[log_file_path].entries
    ELSE <<>>

\* the file that was at <root>/p when the run started is now at <cleanup_dir>/p
\* and no longer at <root>/p
AtDestination(p) ==
    /\ Join(root, p) \in DOMAIN files0
    /\ Join(root, p) \notin DOMAIN files
    /\ Join(cleanup_path, p) \in DOMAIN files
    /\ files[Join(cleanup_path, p)] = files0[Join(root, p)]

\* the file that was at <root>/p when the run started is still there
StillAtSource(p) ==
    /\ Join(root, p) \in DOMAIN files0
    /\ Join(root, p) \in DOMAIN files
    /\ files[Join(root, p)] = files0[Join(root, p)]

FilesystemUntouched == files = files0 /\ dirs = dirs0

NoLogOfThisRun ==
    /\ logWrites = 0
    /\ IsFile(log_file_path) => files[log_file_path].kind = "data"

(***************************************************************************)
(* C1  Completeness (P1): once a run that passed the repository check and  *)
(* the enumeration has ended, every untracked, non-ignored regular file    *)
(* under the root has, in the log written to disk, a MOVED entry (and is   *)
(* at <cleanup_dir>/<relative path>, no longer at its source) or an ERROR  *)
(* entry (and is still at its source), whatever failed during the loop.    *)
(* A run whose log write itself failed is left to C7.                      *)
(***************************************************************************)
C1_Completeness ==
    (Done /\ ~SetupFailed /\ "log" \notin runFaults) =>
        \A f \in StartUntracked :
            LET p == RelativeTo(root, f)
            IN  \/ HasEntry(WrittenLog, "MOVED", p) /\ AtDestination(p)
                \/ HasEntry(WrittenLog, "ERROR", p) /\ StillAtSource(p)

(***************************************************************************)
(* C2  Partial-failure isolation (P6): when the move of a file has raised, *)
(* that file has an ERROR entry and is not counted as moved, and at the    *)
(* end of the run every file of the list has been attempted and has its    *)
(* own MOVED or ERROR entry.                                               *)
(***************************************************************************)
C2_FailureIsolation ==
    (Done /\ "move" \in runFaults) =>
        /\ attempts = untracked_files
        /\ \A n \in 1..Len(untracked_files) :
              \/ HasEntry(log_entries, "MOVED", untracked_files[n])
              \/ HasEntry(log_entries, "ERROR", untracked_files[n])
        /\ files_moved_count = Cardinality(MovedPaths)
        /\ \A p \in MovedPaths : ~HasEntry(log_entries, "ERROR", p)

(***************************************************************************)
(* C3  Only untracked, non-ignored files are moved: every file handed to   *)
(* the move is one git listed as untracked and not ignored, and every      *)
(* tracked file and every ignored file stays at its path with its content. *)
(***************************************************************************)
C3_OnlyUntrackedMoved ==
    /\ \A n \in 1..Len(attempts) : Join(root, attempts[n]) \in StartUntracked
    /\ \A f \in DOMAIN files0 :
          (f \in idx \/ f \in ign) => (f \in DOMAIN files /\ files[f] = files0[f])

(***************************************************************************)
(* C4  Structure preservation (P2): in every state, each file recorded as  *)
(* MOVED with relative path p resides at <cleanup_dir>/p, and every move   *)
(* found the cleanup directory and the intermediate directories of its     *)
(* destination already created.                                            *)
(***************************************************************************)
C4_StructurePreserved ==
    /\ \A p \in MovedPaths : AtDestination(p)
    /\ dirsReady

(***************************************************************************)
(* C5  Fatal setup errors do not mutate the filesystem: a run ended by a   *)
(* failing repository check, a missing git executable or a failing         *)
(* enumeration has created no directory, moved no file and written no log. *)
(***************************************************************************)
C5_FatalSetupNoMutation ==
    (Done /\ SetupFailed) =>
        /\ FilesystemUntouched
        /\ attempts = <<>>
        /\ logWrites = 0
        /\ log_entries = <<>>

C5_Witness ==
    /\ Done
    /\ outcome = "git_error"
    /\ StartUntracked # {}
    /\ root = <<>>

(***************************************************************************)
(* C6  No-op on a clean tree (P3): when the filtered list is empty the run *)
(* ends normally, having created no cleanup folder, moved no file and      *)
(* written no log.                                                         *)
(***************************************************************************)
C6_NoOpOnCleanTree ==
    (pc \notin {"start", "enumerate"} /\ ~SetupFailed /\ untracked_files = <<>>) =>
        /\ Done
        /\ outcome = "noop"
        /\ FilesystemUntouched
        /\ cleanup_path \notin dirs
        /\ logWrites = 0

C6_Witness ==
    /\ Done
    /\ outcome = "noop"
    /\ DOMAIN files0 # {}
    /\ root = <<>>

(***************************************************************************)
(* C7  Log-write failure is recovered without rollback: when writing the   *)
(* log has failed, the run still ends with the completion report, and      *)
(* every file moved during the loop is at its destination, not back at     *)
(* its source.                                                             *)
(***************************************************************************)
C7_LogFailureNoRollback ==
    (Done /\ "log" \in runFaults) =>
        /\ outcome = "complete"
        /\ \A p \in MovedPaths : AtDestination(p)

C9_MakedirsFailureEndsLoop ==
    (Done /\ "makedirs" \in runFaults) =>
        /\ outcome = "unexpected"
        /\ pos <= Len(untracked_files)
        /\ attempts = SubSeq(untracked_files, 1, pos - 1)
        /\ PathsOf(FileEntries(log_entries)) = attempts
        /\ \A n \in pos..Len(untracked_files) :
              /\ ~HasEntry(log_entries, "ERROR", untracked_files[n])
              /\ ~HasEntry(log_entries, "MOVED", untracked_files[n])
              /\ StillAtSource(untracked_files[n])
        /\ NoLogOfThisRun
        /\ \A p \in MovedPaths : AtDestination(p)

C9_Witness ==
    /\ Done
    /\ "makedirs" \in runFaults
    /\ files_moved_count >= 1
    /\ pos < Len(untracked_files)

(***************************************************************************)
(* C10  The sweep is not idempotent: after a run that moved at least one   *)
(* file, a second run in the same root at a later second, meeting no       *)
(* failure, is not a no-op: every file the earlier cleanup folder held is  *)
(* moved to <new cleanup dir>/<old cleanup folder>/<relative path>, and    *)
(* the earlier cleanup folder holds no file afterwards.                    *)
(***************************************************************************)
C10_SecondRunMovesFirstCleanup ==
    (Done /\ run >= 2 /\ prev.moved >= 1 /\ clock > prev.time /\ runFaults = {}) =>
        /\ outcome = "complete"
        /\ \A f \in DOMAIN files0 :
              IsPrefix(prev.cleanup, f) =>
                  /\ HasEntry(log_entries, "MOVED", RelativeTo(root, f))
                  /\ AtDestination(RelativeTo(root, f))
        /\ \A f \in DOMAIN files : ~IsPrefix(prev.cleanup, f)

====
